---- MODULE Spec2Model ----
(***************************************************************************)
(* tlphone: phonetic keys for Tulu words written in Kannada script.        *)
(*                                                                         *)
(* A string is a sequence of characters.  A character is a TLA+ string:   *)
(* an ASCII character stands for itself ("K", "2", "{", " "), a Kannada    *)
(* character is written by its Unicode name ("kn_ka" is U+0C95 KANNADA     *)
(* LETTER KA, "kn_sign_i" is U+0CBF KANNADA VOWEL SIGN I), and             *)
(* "ml_au_length_mark" is U+0D57 MALAYALAM AU LENGTH MARK.                 *)
(*                                                                         *)
(* The working string of process carries, beside each character c, two    *)
(* history fields that no operation reads: o, the position in the          *)
(* script-filtered word of the first character it was made from, and g,    *)
(* the length of the table key whose replacement produced it (0 for a      *)
(* character of the word itself).                                          *)
(***************************************************************************)
EXTENDS Naturals, Sequences, FiniteSets, TLC

VARIABLES pc, word, input, todo, key0, key1, key2

vars == <<pc, word, input, todo, key0, key1, key2>>

----------------------------------------------------------------------------
\* The glyph tables.

vowels ==
    (<<"kn_a">> :> <<"A">>) @@
    (<<"kn_aa">> :> <<"A">>) @@
    (<<"kn_i">> :> <<"I">>) @@
    (<<"kn_ii">> :> <<"I">>) @@
    (<<"kn_u">> :> <<"U">>) @@
    (<<"kn_uu">> :> <<"U">>) @@
    (<<"kn_vocalic_r">> :> <<"R">>) @@
    (<<"kn_e">> :> <<"E">>) @@
    (<<"kn_ee">> :> <<"E">>) @@
    (<<"kn_ai">> :> <<"A", "I">>) @@
    (<<"kn_o">> :> <<"O">>) @@
    (<<"kn_oo">> :> <<"O">>) @@
    (<<"kn_au">> :> <<"O">>)

consonants ==
    (<<"kn_ka">> :> <<"K">>) @@
    (<<"kn_kha">> :> <<"K">>) @@
    (<<"kn_ga">> :> <<"K">>) @@
    (<<"kn_gha">> :> <<"K">>) @@
    (<<"kn_nga">> :> <<"N", "G">>) @@
    (<<"kn_ca">> :> <<"C">>) @@
    (<<"kn_cha">> :> <<"C">>) @@
    (<<"kn_ja">> :> <<"J">>) @@
    (<<"kn_jha">> :> <<"J">>) @@
    (<<"kn_nya">> :> <<"N", "J">>) @@
    (<<"kn_tta">> :> <<"T">>) @@
    (<<"kn_ttha">> :> <<"T">>) @@
    (<<"kn_dda">> :> <<"T">>) @@
    (<<"kn_ddha">> :> <<"T">>) @@
    (<<"kn_nna">> :> <<"N", "1">>) @@
    (<<"kn_ta">> :> <<"0">>) @@
    (<<"kn_tha">> :> <<"0">>) @@
    (<<"kn_da">> :> <<"0">>) @@
    (<<"kn_dha">> :> <<"0">>) @@
    (<<"kn_na">> :> <<"N">>) @@
    (<<"kn_pa">> :> <<"P">>) @@
    (<<"kn_pha">> :> <<"F">>) @@
    (<<"kn_ba">> :> <<"B">>) @@
    (<<"kn_bha">> :> <<"B">>) @@
    (<<"kn_ma">> :> <<"M">>) @@
    (<<"kn_ya">> :> <<"Y">>) @@
    (<<"kn_ra">> :> <<"R">>) @@
    (<<"kn_la">> :> <<"L">>) @@
    (<<"kn_va">> :> <<"V">>) @@
    (<<"kn_sha">> :> <<"S", "1">>) @@
    (<<"kn_ssa">> :> <<"S", "1">>) @@
    (<<"kn_sa">> :> <<"S">>) @@
    (<<"kn_ha">> :> <<"H">>) @@
    (<<"kn_lla">> :> <<"L", "1">>) @@
    (<<"kn_fa">> :> <<"Z">>) @@
    (<<"kn_rra">> :> <<"R", "1">>)

compounds ==
    (<<"kn_ka", "kn_virama", "kn_ka">> :> <<"K", "2">>) @@
    (<<"kn_ga", "kn_virama", "kn_ga", "kn_sign_aa">> :> <<"K">>) @@
    (<<"kn_nga", "kn_virama", "kn_nga">> :> <<"N", "G">>) @@
    (<<"kn_ca", "kn_virama", "kn_ca">> :> <<"C", "2">>) @@
    (<<"kn_ja", "kn_virama", "kn_ja">> :> <<"J">>) @@
    (<<"kn_nya", "kn_virama", "kn_nya">> :> <<"N", "J">>) @@
    (<<"kn_tta", "kn_virama", "kn_tta">> :> <<"T", "2">>) @@
    (<<"kn_nna", "kn_virama", "kn_nna">> :> <<"N", "2">>) @@
    (<<"kn_ta", "kn_virama", "kn_ta">> :> <<"0">>) @@
    (<<"kn_da", "kn_virama", "kn_da">> :> <<"D">>) @@
    (<<"kn_da", "kn_virama", "kn_dha">> :> <<"D">>) @@
    (<<"kn_na", "kn_virama", "kn_na">> :> <<"N", "N">>) @@
    (<<"kn_ba", "kn_virama", "kn_ba">> :> <<"B">>) @@
    (<<"kn_pa", "kn_virama", "kn_pa">> :> <<"P", "2">>) @@
    (<<"kn_ma", "kn_virama", "kn_ma">> :> <<"M", "2">>) @@
    (<<"kn_ya", "kn_virama", "kn_ya">> :> <<"Y">>) @@
    (<<"kn_la", "kn_virama", "kn_la">> :> <<"L", "2">>) @@
    (<<"kn_va", "kn_virama", "kn_va">> :> <<"V">>) @@
    (<<"kn_sha", "kn_virama", "kn_sha">> :> <<"S", "1">>) @@
    (<<"kn_sa", "kn_virama", "kn_sa">> :> <<"S">>) @@
    (<<"kn_lla", "kn_virama", "kn_lla">> :> <<"L", "1", "2">>) @@
    (<<"kn_ka", "kn_virama", "kn_ssa">> :> <<"K", "S", "1">>)

modifiers ==
    (<<"kn_sign_aa">> :> <<>>) @@
    (<<"kn_visarga">> :> <<>>) @@
    (<<"kn_virama">> :> <<>>) @@
    (<<"kn_sign_vocalic_r">> :> <<"R">>) @@
    (<<"kn_anusvara">> :> <<"3">>) @@
    (<<"kn_sign_i">> :> <<"4">>) @@
    (<<"kn_sign_ii">> :> <<"4">>) @@
    (<<"kn_sign_u">> :> <<"5">>) @@
    (<<"kn_sign_uu">> :> <<"5">>) @@
    (<<"kn_sign_e">> :> <<"6">>) @@
    (<<"kn_sign_ee">> :> <<"6">>) @@
    (<<"kn_sign_ai">> :> <<"7">>) @@
    (<<"kn_sign_o">> :> <<"8">>) @@
    (<<"kn_sign_oo">> :> <<"8">>) @@
    (<<"kn_sign_au">> :> <<"9">>) @@
    (<<"ml_au_length_mark">> :> <<"9">>)

----------------------------------------------------------------------------
\* Character classes of the four package-level regular expressions.

Digits == {"0", "1", "2", "3", "4", "5", "6", "7", "8", "9"}

Upper ==
    {"A", "B", "C", "D", "E", "F", "G", "H", "I", "J", "K", "L", "M",
     "N", "O", "P", "Q", "R", "S", "T", "U", "V", "W", "X", "Y", "Z"}

\* regexKey0 written with the class of regexKey1.
regexKey0AsKey1 == {"2", ",", "4", "5", "6", "7", "8", "9"}

\* `[1,2,4-9]`: the comma is a member of the class like any other character.
regexKey0 == {"1", ",", "2", "4", "5", "6", "7", "8", "9"}

\* `[2,4-9]`
regexKey1 == {"2", ",", "4", "5", "6", "7", "8", "9"}

\* Characters of script Kannada that are a key of no table.
KannadaOther == {"kn_digit_one", "kn_avagraha", "kn_length_mark"}

\* \p{Kannada}: regexNonTulu, `[\P{Kannada}]`, matches every other character.
Kannada ==
    ({k[1] : k \in DOMAIN vowels \cup DOMAIN consonants \cup DOMAIN modifiers}
        \ {"ml_au_length_mark"})
    \cup KannadaOther

\* `[^0-9A-Z]` matches every character outside this set.
regexAlphaNum == Digits \cup Upper

\* unicode.IsSpace, for the characters the inputs use.
WhiteSpace == {" "}

----------------------------------------------------------------------------
\* Strings.

Chars(s) == [i \in 1..Len(s) |-> s[i].c]

\* The characters of a word as working-string elements.
Raw(s) == [i \in 1..Len(s) |-> [c |-> s[i], o |-> i, g |-> 0]]

\* The characters of a replacement text, made from the key found at origin o.
Made(new, o, g) == [i \in 1..Len(new) |-> [c |-> new[i], o |-> o, g |-> g]]

HasPrefixAt(s, i, k) ==
    /\ i + Len(k) - 1 <= Len(s)
    /\ \A j \in 1..Len(k) : s[i + j - 1].c = k[j]

\* regexp ReplaceAllString(s, "") for a one-character class: delete the matches.
DeleteMatches(s, class) == SelectSeq(s, LAMBDA c : c \notin class)

RECURSIVE TrimLeft(_)
TrimLeft(s) ==
    IF s # <<>> /\ Head(s) \in WhiteSpace THEN TrimLeft(Tail(s)) ELSE s

RECURSIVE TrimRight(_)
TrimRight(s) ==
    IF s # <<>> /\ s[Len(s)] \in WhiteSpace
    THEN TrimRight(SubSeq(s, 1, Len(s) - 1))
    ELSE s

TrimSpace(s) == TrimRight(TrimLeft(s))

RECURSIVE ReplaceFrom(_, _, _, _)
ReplaceFrom(s, i, old, new) ==
    IF i > Len(s) THEN <<>>
    ELSE IF HasPrefixAt(s, i, old)
         THEN Made(new, s[i].o, Len(old)) \o ReplaceFrom(s, i + Len(old), old, new)
         ELSE <<s[i]>> \o ReplaceFrom(s, i + 1, old, new)

RECURSIVE ReplaceFirstFrom(_, _, _, _)
ReplaceFirstFrom(s, i, old, new) ==
    IF i > Len(s) THEN <<>>
    ELSE IF HasPrefixAt(s, i, old)
         THEN Made(new, s[i].o, Len(old)) \o SubSeq(s, i + Len(old), Len(s))
         ELSE <<s[i]>> \o ReplaceFirstFrom(s, i + 1, old, new)

\* strings.Replace(s, old, new, 1) in place of strings.ReplaceAll.
ReplaceFirst(s, old, new) == ReplaceFirstFrom(s, 1, old, new)

\* strings.ReplaceAll for a non-empty old: the non-overlapping occurrences,
\* leftmost first.
ReplaceAll(s, old, new) == ReplaceFrom(s, 1, old, new)

----------------------------------------------------------------------------
\* The matchers built by New: `((g1|g2|...)(m1|m2|...))`.  The order of the
\* alternatives is the iteration order of a map; the matcher is kept as the
\* two sets of alternatives.

Matcher(glyphs) == [glyphs |-> DOMAIN glyphs, mods |-> DOMAIN modifiers]

modCompounds == Matcher(compounds)

modConsonants == Matcher(consonants)

modVowels == Matcher(vowels)

\* The strings of the lengths of keys that start at position i of s.
Candidates(s, i, keys) ==
    {SubSeq(s, i, i + n - 1) : n \in {Len(k) : k \in keys} \cap 1..(Len(s) - i + 1)}

\* The alternatives of r's first group with which r matches at position i.
MatchesAt(s, i, r) ==
    LET cs == Chars(s)
    IN  {k \in Candidates(cs, i, r.glyphs) \cap r.glyphs :
            /\ i + Len(k) <= Len(cs)
            /\ <<cs[i + Len(k)]>> \in r.mods}

RECURSIVE FindFrom(_, _, _)
FindFrom(s, i, r) ==
    IF i > Len(s) THEN <<>>
    ELSE LET ms == MatchesAt(s, i, r)
         IN  IF ms = {} THEN FindFrom(s, i + 1, r)
             ELSE LET k == CHOOSE x \in ms : TRUE
                      m == <<s[i + Len(k)].c>>
                  IN  <<k \o m, k \o m, k, m>> \o FindFrom(s, i + Len(k) + 1, r)

\* FindAllStringSubmatch(s, -1), the submatches of all matches in one list:
\* per match the whole match, group 1, group 2 (the glyph), group 3 (the
\* modifier).
FindAllStringSubmatch(s, r) == FindFrom(s, 1, r)

RECURSIVE ReplaceEach(_, _, _)
ReplaceEach(s, ms, glyphs) ==
    IF ms = <<>> THEN s
    ELSE ReplaceEach(
            IF Head(ms) \in DOMAIN glyphs
            THEN ReplaceAll(s, Head(ms), glyphs[Head(ms)])
            ELSE s,
            Tail(ms), glyphs)

\* replaceModifiedGlyphs returning its input unchanged.
replaceModifiedGlyphsSkipped(s, glyphs, r) == s

replaceModifiedGlyphs(s, glyphs, r) ==
    ReplaceEach(s, FindAllStringSubmatch(s, r), glyphs)

\* The keys among `keys` that occur in s.
KeysIn(s, keys) ==
    LET cs == Chars(s)
    IN  UNION {Candidates(cs, i, keys) : i \in 1..Len(cs)} \cap keys

----------------------------------------------------------------------------
\* The inputs of Encode.

MaxLen == 3

MaxGlyphs == 5

Alphabet ==
    {"kn_ka", "kn_ta", "kn_virama", "kn_anusvara", "kn_a", "kn_digit_one",
     "ml_au_length_mark", " ", "K"}

\* Every string of at most MaxLen characters of Alphabet.
CharWords == UNION {[1..n -> Alphabet] : n \in 0..MaxLen}

Clusters ==
    {<<"kn_ka", "kn_virama", "kn_ka">>, <<"kn_ka", "kn_virama", "kn_ssa">>,
     <<"kn_virama">>, <<"kn_ssa">>, <<"kn_ka">>}

RECURSIVE Concat(_)
Concat(ss) == IF ss = <<>> THEN <<>> ELSE Head(ss) \o Concat(Tail(ss))

\* Every word written with at most MaxGlyphs glyphs of Clusters.
ClusterWords ==
    {Concat(gs) : gs \in UNION {[1..n -> Clusters] : n \in 1..MaxGlyphs}}

\* The inputs of TestEncode with the keys it expects: key0, key1, key2.
TestEncode ==
    (<<"kn_ta", "kn_sign_u", "kn_anusvara", "kn_ba", "kn_sign_aa">> :>
        << <<"0", "3", "B">>, <<"0", "3", "B">>, <<"0", "5", "3", "B">> >>) @@
    (<<"kn_ma", "kn_ka", "kn_virama", "kn_ka", "kn_lla", "kn_sign_u">> :>
        << <<"M", "K", "L">>, <<"M", "K", "L", "1">>,
           <<"M", "K", "2", "L", "1", "5">> >>) @@
    (<<"kn_ba", "kn_anusvara", "kn_ga", "kn_sign_aa", "kn_ra", "kn_sign_aa">> :>
        << <<"B", "3", "K", "R">>, <<"B", "3", "K", "R">>,
           <<"B", "3", "K", "R">> >>) @@
    (<<"kn_a", "kn_na", "kn_sign_u", "kn_ga", "kn_virama", "kn_ra", "kn_ha">> :>
        << <<"A", "N", "K", "R", "H">>, <<"A", "N", "K", "R", "H">>,
           <<"A", "N", "5", "K", "R", "H">> >>) @@
    (<<"kn_va", "kn_sign_vocalic_r", "kn_ta", "kn_virama", "kn_ta", "kn_sign_i">> :>
        << <<"V", "R", "0">>, <<"V", "R", "0">>, <<"V", "R", "0", "4">> >>) @@
    (<<"kn_a", "kn_dha", "kn_virama", "kn_ya", "kn_ka", "kn_virama", "kn_ssa">> :>
        << <<"A", "0", "Y", "K", "S">>, <<"A", "0", "Y", "K", "S", "1">>,
           <<"A", "0", "Y", "K", "S", "1">> >>)

Words == CharWords \cup ClusterWords \cup DOMAIN TestEncode

----------------------------------------------------------------------------
\* Encode and process.  pc names the statement of process that runs next.

\* process with the consonant and vowel passes ahead of the compound passes.
processConsonantsFirst ==
    <<"modConsonants", "modVowels", "consonants", "vowels",
      "modCompounds", "compounds", "modifiers", "return">>

\* The statements of process after the script filter, in order.
process ==
    <<"modCompounds", "compounds", "modConsonants", "modVowels",
      "consonants", "vowels", "modifiers", "return">>

After(p) ==
    LET i == CHOOSE n \in 1..Len(process) : process[n] = p
    IN  process[i + 1]

\* The consonant loop ranging over the vowels table.
RangeVowelsTwice(p) ==
    CASE p = "compounds" -> compounds
      [] p = "consonants" -> vowels
      [] p = "vowels" -> vowels
      [] p = "modifiers" -> modifiers
      [] OTHER -> <<>>

\* The table a range statement iterates over.
Range(p) ==
    CASE p = "compounds" -> compounds
      [] p = "consonants" -> consonants
      [] p = "vowels" -> vowels
      [] p = "modifiers" -> modifiers
      [] OTHER -> <<>>

\* The replacement text of a range statement.
Grouped(p, v) == IF p = "modifiers" THEN v ELSE <<"{">> \o v \o <<"}">>

\* process without the script filter.
ScriptFilterTrimOnly(s) == TrimSpace(s)

\* regexNonTulu.ReplaceAllString(strings.TrimSpace(input), "")
ScriptFilter(s) == SelectSeq(TrimSpace(s), LAMBDA c : c \in Kannada)

\* The final cleanup leaving the grouping braces in.
CleanupKeepsGroups(s) == SelectSeq(s, LAMBDA e : e.c \in regexAlphaNum \cup {"{", "}"})

\* return regexAlphaNum.ReplaceAllString(input, "")
Cleanup(s) == SelectSeq(s, LAMBDA e : e.c \in regexAlphaNum)

\* regexKey1 without the 2.
EncodeKey1Keeps2(k2) == DeleteMatches(k2, regexKey1 \ {"2"})

\* regexKey0 without the 2.
EncodeKey0Keeps2(k2) == DeleteMatches(k2, regexKey0 \ {"2"})

EncodeKey1(k2) == DeleteMatches(k2, regexKey1)

EncodeKey0(k2) == DeleteMatches(k2, regexKey0)

Goto(p) ==
    /\ pc' = p
    /\ todo' = DOMAIN Range(p)

Init ==
    /\ pc = "idle"
    /\ word = <<>>
    /\ input = <<>>
    /\ todo = {}
    /\ key0 = <<>>
    /\ key1 = <<>>
    /\ key2 = <<>>

\* Encode is called with w; process filters the script.
Encode(w) ==
    /\ pc = "idle"
    /\ word' = w
    /\ input' = Raw(ScriptFilter(w))
    /\ Goto(process[1])
    /\ key0' = <<>>
    /\ key1' = <<>>
    /\ key2' = <<>>

Modified(p, glyphs, r) ==
    /\ pc = p
    /\ input' = replaceModifiedGlyphs(input, glyphs, r)
    /\ Goto(After(p))
    /\ UNCHANGED <<word, key0, key1, key2>>

\* One iteration of `for k, v := range table` whose key occurs in the string.
\* The iterations whose key does not occur leave the string as it is; they
\* are taken together with the end of the loop.
RangeStep(p) ==
    /\ pc = p
    /\ \E k \in KeysIn(input, todo) :
        /\ input' = ReplaceAll(input, k, Grouped(p, Range(p)[k]))
        /\ todo' = todo \ {k}
    /\ UNCHANGED <<pc, word, key0, key1, key2>>

RangeEnd(p) ==
    /\ pc = p
    /\ KeysIn(input, todo) = {}
    /\ Goto(After(p))
    /\ UNCHANGED <<word, input, key0, key1, key2>>

ModifiedCompounds == Modified("modCompounds", compounds, modCompounds)

RangeCompounds == RangeStep("compounds")

EndCompounds == RangeEnd("compounds")

ModifiedConsonants == Modified("modConsonants", consonants, modConsonants)

ModifiedVowels == Modified("modVowels", vowels, modVowels)

RangeConsonants == RangeStep("consonants")

EndConsonants == RangeEnd("consonants")

RangeVowels == RangeStep("vowels")

EndVowels == RangeEnd("vowels")

RangeModifiers == RangeStep("modifiers")

EndModifiers == RangeEnd("modifiers")

\* process returns and Encode derives key1 and key0 from key2.
Return ==
    /\ pc = "return"
    /\ input' = Cleanup(input)
    /\ key2' = Chars(input')
    /\ key1' = EncodeKey1(key2')
    /\ key0' = EncodeKey0(key2')
    /\ pc' = "done"
    /\ UNCHANGED <<word, todo>>

\* Encode has returned its keys to the caller.  The encoder keeps nothing of
\* a call: the next call starts from the state New left.
Returned ==
    /\ pc = "done"
    /\ pc' = "idle"
    /\ word' = <<>>
    /\ input' = <<>>
    /\ key0' = <<>>
    /\ key1' = <<>>
    /\ key2' = <<>>
    /\ UNCHANGED todo

Step ==
    \/ ModifiedCompounds
    \/ RangeCompounds
    \/ EndCompounds
    \/ ModifiedConsonants
    \/ ModifiedVowels
    \/ RangeConsonants
    \/ EndConsonants
    \/ RangeVowels
    \/ EndVowels
    \/ RangeModifiers
    \/ EndModifiers
    \/ Return
    \/ Returned

Call == pc = "idle" /\ \E w \in Words : Encode(w)

Next == Call \/ Step

Spec == Init /\ [][Next]_vars

----------------------------------------------------------------------------
\* The single left-to-right scan the pipeline is compared with: at each
\* position the longest compound key that starts there, else the one-character
\* consonant, vowel or modifier key; any other character is dropped.

Longest(ks) == CHOOSE k \in ks : \A x \in ks : Len(x) <= Len(k)

RECURSIVE ScanFrom(_, _)
ScanFrom(cs, i) ==
    IF i > Len(cs) THEN <<>>
    ELSE LET cands == Candidates(cs, i, DOMAIN compounds) \cap DOMAIN compounds
             c == <<cs[i]>>
         IN  IF cands # {}
             THEN <<[pos |-> i, key |-> Longest(cands),
                     code |-> compounds[Longest(cands)]]>>
                  \o ScanFrom(cs, i + Len(Longest(cands)))
             ELSE IF c \in DOMAIN consonants
             THEN <<[pos |-> i, key |-> c, code |-> consonants[c]]>>
                  \o ScanFrom(cs, i + 1)
             ELSE IF c \in DOMAIN vowels
             THEN <<[pos |-> i, key |-> c, code |-> vowels[c]]>>
                  \o ScanFrom(cs, i + 1)
             ELSE IF c \in DOMAIN modifiers
             THEN <<[pos |-> i, key |-> c, code |-> modifiers[c]]>>
                  \o ScanFrom(cs, i + 1)
             ELSE ScanFrom(cs, i + 1)

\* The glyphs of a word, in order.
Glyphs(w) == ScanFrom(ScriptFilter(w), 1)

ScanKey2(w) == Concat([i \in 1..Len(Glyphs(w)) |-> Glyphs(w)[i].code])

\* One run of process, taking the keys of every range statement in one
\* fixed order.
RECURSIVE RangeInOrder(_, _, _)
RangeInOrder(s, p, keys) ==
    IF KeysIn(s, keys) = {} THEN s
    ELSE LET k == CHOOSE x \in KeysIn(s, keys) : TRUE
         IN  RangeInOrder(ReplaceAll(s, k, Grouped(p, Range(p)[k])), p, keys \ {k})

RangeAll(s, p) == RangeInOrder(s, p, DOMAIN Range(p))

ProcessInOrder(w) ==
    LET s1 == replaceModifiedGlyphs(Raw(ScriptFilter(w)), compounds, modCompounds)
        s2 == RangeAll(s1, "compounds")
        s3 == replaceModifiedGlyphs(s2, consonants, modConsonants)
        s4 == replaceModifiedGlyphs(s3, vowels, modVowels)
        s5 == RangeAll(RangeAll(s4, "consonants"), "vowels")
    IN  Chars(Cleanup(RangeAll(s5, "modifiers")))

Elems(s) == {s[i] : i \in 1..Len(s)}

RECURSIVE IsSubsequence(_, _)
IsSubsequence(a, b) ==
    IF a = <<>> THEN TRUE
    ELSE IF b = <<>> THEN FALSE
    ELSE IF Head(a) = Head(b) THEN IsSubsequence(Tail(a), Tail(b))
    ELSE IsSubsequence(a, Tail(b))

Without(s, class) == SelectSeq(s, LAMBDA c : c \notin class)

GlyphKeys == DOMAIN compounds \cup DOMAIN consonants \cup DOMAIN vowels

\* The statement of process that runs next is the first iteration of p.
AtStartOf(p) == pc = p /\ todo = DOMAIN Range(p)

----------------------------------------------------------------------------
StagesLeft ==
    IF pc \in {"idle", "done"} THEN 0
    ELSE 1 + Len(process) - (CHOOSE n \in 1..Len(process) : process[n] = pc)

StepsLeft ==
    StagesLeft * (1 + Cardinality(GlyphKeys \cup DOMAIN modifiers)) + Cardinality(todo)

C1_Returned ==
    /\ pc \notin {"idle", "done"} =>
        /\ pc \in Elems(process)
        /\ todo \subseteq DOMAIN Range(pc)
    /\ pc = "done" =>
        \A k \in {key0, key1, key2} : Elems(k) \subseteq Digits \cup Upper

C1_Progress == pc \notin {"idle", "done"} => StepsLeft' < StepsLeft

\* C1: for every input Encode terminates without failing and returns three
\* strings made only of the characters 0-9 and A-Z.  A call is always at a
\* statement of process, with the iterations left of that statement's own
\* table; every statement lowers the bounded measure StepsLeft; and the
\* keys returned are made of digits and capital letters only.
C1_Totality == [](C1_Returned) /\ [][C1_Progress]_vars

C1_Witness ==
    /\ pc = "done"
    /\ key2 # <<>>
    /\ \E c \in Elems(word) : c \notin Kannada
    /\ Elems(word) \cap KannadaOther # {}

\* C2: key1 is key2 with every digit 2, 4, 5, 6, 7, 8, 9 deleted and nothing
\* else changed, and key0 is key2 with every digit 1, 2, 4, 5, 6, 7, 8, 9
\* deleted and nothing else changed; the zeros and letters of key2 stay, in
\* order, in key1 and key0.
C2_KeyDerivation ==
    pc = "done" =>
        /\ key1 = Without(key2, {"2", "4", "5", "6", "7", "8", "9"})
        /\ key0 = Without(key2, {"1", "2", "4", "5", "6", "7", "8", "9"})
        /\ Without(key1, Digits \ {"0"}) = Without(key2, Digits \ {"0"})
        /\ Without(key0, Digits \ {"0"}) = Without(key2, Digits \ {"0"})

C2_Witness ==
    /\ pc = "done"
    /\ "0" \in Elems(key0)
    /\ Elems(key2) \cap {"4", "5", "6", "7", "8", "9"} # {}

\* C3: key0 is a subsequence of key1, and key1 is a subsequence of key2.
C3_MonotonicLossiness ==
    pc = "done" => IsSubsequence(key0, key1) /\ IsSubsequence(key1, key2)

C3_Witness ==
    /\ pc = "done"
    /\ key0 # <<>>
    /\ Len(key0) < Len(key1)
    /\ Len(key1) < Len(key2)

\* C4: each of the six words of TestEncode yields the triple the test
\* expects, and its key2 is the codes of its glyphs in order.
C4_TestVectors ==
    (pc = "done" /\ word \in DOMAIN TestEncode) =>
        /\ <<key0, key1, key2>> = TestEncode[word]
        /\ key2 = ScanKey2(word)

C4_Witness ==
    /\ pc = "done"
    /\ word = <<"kn_ma", "kn_ka", "kn_virama", "kn_ka", "kn_lla", "kn_sign_u">>
    /\ key2 = <<"M", "K", "2", "L", "1", "5">>

\* C5: an input with no character of the script (the empty string, spaces,
\* ASCII letters and digits, characters of another script) yields three
\* empty keys.
C5_NoScriptNoKeys ==
    (pc = "done" /\ Elems(word) \cap Kannada = {}) =>
        key0 = <<>> /\ key1 = <<>> /\ key2 = <<>>

C5_Witness ==
    /\ pc = "done"
    /\ "K" \in Elems(word)
    /\ " " \in Elems(word)
    /\ Elems(word) \cap Kannada = {}

CompoundInitials == {<<k[1]>> : k \in DOMAIN compounds} \cap DOMAIN consonants

\* The compound glyphs of w that such a consonant follows.
FollowedCompounds(w) ==
    LET cs == ScriptFilter(w)
        gs == Glyphs(w)
    IN  {gs[i] : i \in {n \in 1..Len(gs) :
            /\ gs[n].key \in DOMAIN compounds
            /\ gs[n].pos + Len(gs[n].key) <= Len(cs)
            /\ <<cs[gs[n].pos + Len(gs[n].key)]>> \in CompoundInitials}}

MadeFrom(s, lo, hi) == SelectSeq(s, LAMBDA e : lo <= e.o /\ e.o <= hi)

\* C6: a compound glyph of a word that is immediately followed by a
\* consonant that begins some compound key comes out as the compound's code,
\* made by one replacement of the whole key, and none of its characters
\* comes out on its own; no compound key is left when the consonant passes
\* start, and no single character has been replaced before they start.
C6_CompoundsFirst ==
    /\ pc = "done" =>
        \A t \in FollowedCompounds(word) :
            LET made == MadeFrom(input, t.pos, t.pos + Len(t.key) - 1)
            IN  /\ Chars(made) = t.code
                /\ \A e \in Elems(made) : e.o = t.pos /\ e.g = Len(t.key)
    /\ pc \in {"modCompounds", "compounds"} => \A e \in Elems(input) : e.g # 1
    /\ AtStartOf("modConsonants") => KeysIn(input, DOMAIN compounds) = {}

C6_Witness ==
    /\ pc = "done"
    /\ Cardinality(FollowedCompounds(word)) >= 2
    /\ \E t \in FollowedCompounds(word) : \E e \in Elems(input) : e.o = t.pos

\* C7: for every word key2 is the key of the single left-to-right scan with
\* the longest match first.
C7_EqualsScan == pc = "done" => key2 = ScanKey2(word)

Unambiguous(r) == \A i \in 1..Len(input) : Cardinality(MatchesAt(input, i, r)) <= 1

\* C8: the keys of a word are the same whatever order the table entries are
\* visited in: every run returns the keys of the run that takes the entries
\* in one fixed order, and at every position at most one alternative of a
\* matcher matches, so the order of its alternatives decides nothing.
C8_Deterministic ==
    /\ pc = "done" =>
        /\ key2 = ProcessInOrder(word)
        /\ key1 = EncodeKey1(ProcessInOrder(word))
        /\ key0 = EncodeKey0(ProcessInOrder(word))
    /\ pc = "modCompounds" => Unambiguous(modCompounds)
    /\ pc = "modConsonants" => Unambiguous(modConsonants)
    /\ pc = "modVowels" => Unambiguous(modVowels)

C8_Witness ==
    /\ pc = "done"
    /\ \E i \in 1..(Len(word) - 4) :
        SubSeq(word, i, i + 4) =
            <<"kn_ka", "kn_virama", "kn_ka", "kn_virama", "kn_ssa">>
    /\ key2 # <<>>

IsModifier(e) == <<e.c>> \in DOMAIN modifiers

Neighbours(s, i) == {s[j] : j \in {i - 1, i + 1} \cap 1..Len(s)}

\* C10 as claimed: when the modifier pass starts the working string holds
\* no key of the compounds, consonants or vowels tables, and every modifier
\* left in it is next to a substituted code: not first in the string, not
\* next to a glyph, not next to a script character that matched no table.
C10_ModifiersFollowCodes ==
    AtStartOf("modifiers") =>
        /\ KeysIn(input, GlyphKeys) = {}
        /\ \A i \in 1..Len(input) :
            IsModifier(input[i]) =>
                /\ i > 1
                /\ \E e \in Neighbours(input, i) : e.c \notin Kannada
                /\ \A e \in Neighbours(input, i) : <<e.c>> \notin GlyphKeys
                /\ \A e \in Neighbours(input, i) : e.c \notin KannadaOther

\* C10, amended: when the modifier pass starts the working string holds no
\* key of the compounds, consonants or vowels tables, so no modifier left
\* in it is next to a glyph; a modifier may be first in the string, and may
\* be next to a script character that matched no table.
C10_NoGlyphLeft ==
    AtStartOf("modifiers") =>
        /\ KeysIn(input, GlyphKeys) = {}
        /\ \A i \in 1..Len(input) :
            IsModifier(input[i]) =>
                \A e \in Neighbours(input, i) : <<e.c>> \notin GlyphKeys

C10_Witness ==
    /\ AtStartOf("modifiers")
    /\ Len(input) > 2
    /\ IsModifier(input[1])
    /\ \E i \in 1..Len(input) :
        /\ IsModifier(input[i])
        /\ \E e \in Neighbours(input, i) : e.c \in KannadaOther
    /\ \E i \in 1..Len(input) : input[i].g > 0

====
